---- MODULE Spec2Model ----
(***************************************************************************)
(* Model of the buffered asynchronous run writer of mlflow-client          *)
(* (src/src/mlflow_run_writer.rs): the facade (log_metric, log_metrics,    *)
(* finish, Drop), the shared Data block behind its Mutex, and the worker   *)
(* thread run_task.                                                        *)
(*                                                                         *)
(* The facade is one sequential process: every mutating method takes       *)
(* &mut self (finish takes self), so calls on one writer never overlap.    *)
(* Each worker thread is a process of its own.  A step of a process is     *)
(* either the acquisition of the Mutex or the code run up to the next      *)
(* release of the Mutex / the next network call.                           *)
(*                                                                         *)
(* A metric is modelled by its position in the order of appends (id) and   *)
(* its timestamp; key, value and step are payload the writer never reads.  *)
(* An error is identified by the index in ops of the operation that        *)
(* produced it.  A network operation (log_batch, update, log_param) ends   *)
(* with Ok, with Err, or by panicking: a panic of the worker thread is     *)
(* what JoinHandle::join reports and Error::TaskJoinError stands for.      *)
(*                                                                         *)
(* The synchronous calls MlflowRun::log_batch (chunking) and the existence *)
(* lookups of Mlflow / MlflowExperiment are functions of their input and   *)
(* of the responses of the server; SpecApi runs one such call per          *)
(* behaviour, with lists modelled by their lengths and slices by ranges.   *)
(***************************************************************************)
EXTENDS Integers, Sequences, FiniteSets, TLC

\* ---- bounds of the model ----
\* log_batch inputs have up to MaxChunks full chunks of each kind, +-1 item
MaxChunks == 2
\* number of log_metric / log_metrics / log_param calls made on the writer
MaxCalls == 2
\* largest slice passed to one log_metrics call
MaxBatch == 2
\* last value of the clock
MaxTime == 1

\* ---- encodings ----
\* Option::None of Data.task; workers are numbered from 1
NoTask == 0
\* Option::None of Data.error and of the worker's local err; also Ok(())
NoError == 0
\* Error::TaskJoinError
TaskJoinError == -1
\* Option::None of Data.end_time
NoTime == -1
\* the facade as holder of the Mutex
Facade == 0
\* the Mutex is free
Free == -1

Workers == 1..(MaxCalls + 1)

VARIABLES
    metrics,     \* Data.metrics
    error,       \* Data.error
    status,      \* Data.status
    end_time,    \* Data.end_time
    task,        \* Data.task
    lock,        \* holder of the Mutex around Data
    is_end,      \* MlflowRunWriter.is_end
    fpc,         \* position of the facade
    fcall,       \* the facade call in progress and its locals
    wpc,         \* position of each worker thread
    werr,        \* local err of each worker
    wbatch,      \* local metrics of each worker (the batch it took)
    now,         \* the last value read from the clock by Timestamp::now()
    ops,         \* history: the network operations issued, in order
    returns,     \* history: the results returned by the facade calls
    enqueued,    \* history: the metrics appended to Data.metrics, in order
    lb,          \* a call of MlflowRun::log_batch: input, position, requests
    lk           \* a call of an existence lookup: function, requests, result

writerVars == <<metrics, error, status, end_time, task, lock, is_end, fpc, fcall,
                wpc, werr, wbatch, now, ops, returns, enqueued>>
apiVars == <<lb, lk>>
vars == <<writerVars, apiVars>>

dataVars == <<metrics, error, status, end_time, task>>
workerVars == <<wpc, werr, wbatch>>

NoCall == [name |-> "none", n |-> 0, ts |-> NoTime, joined |-> NoTask,
           result |-> NoError]

\* ---- JoinHandle ----
\* a handle that reports every thread as finished: join never waits
is_finished_always(w) == TRUE

\* JoinHandle::is_finished: the thread's closure has returned or unwound
is_finished(w) == wpc[w] \in {"done", "panicked"}
\* a join whose result is taken for Ok whatever the thread did
join_never_err(w) == FALSE

\* JoinHandle::join().is_err(): the thread panicked
join_is_err(w) == wpc[w] = "panicked"

NumSpawned == Cardinality({w \in Workers : wpc[w] # "none"})
\* the thread the next std::thread::spawn creates
NextWorker == NumSpawned + 1

\* a worker is alive from spawn until its closure returns or unwinds
Alive(w) == wpc[w] \notin {"none", "done", "panicked"}
LiveWorkers == {w \in Workers : Alive(w)}

\* ---- struct Data ----
\* take_error that reports nothing and forgets the stored error
take_error_swallow(t, e) == [result |-> NoError, task |-> t, error |-> NoError]

\* take_error that returns the stored error without clearing it (as_ref
\* instead of take)
take_error_keep(t, e) ==
    IF t # NoTask /\ is_finished(t)
    THEN IF join_is_err(t)
         THEN [result |-> TaskJoinError, task |-> NoTask, error |-> e]
         ELSE [result |-> e, task |-> NoTask, error |-> e]
    ELSE [result |-> e, task |-> t, error |-> e]

\* Data::take_error: reap a finished worker, then take the stored error
take_error(t, e) ==
    IF t # NoTask /\ is_finished(t)
    THEN IF join_is_err(t)
         THEN [result |-> TaskJoinError, task |-> NoTask, error |-> e]
         ELSE [result |-> e, task |-> NoTask, error |-> NoError]
    ELSE [result |-> e, task |-> t, error |-> NoError]

\* push_error that never stores
push_error_drop(cur, e) == cur

\* push_error where the last error wins (no is_none test)
push_error_last(cur, e) == IF e # NoError THEN e ELSE cur

\* Data::push_error: the first stored error wins
push_error(cur, e) == IF cur = NoError THEN e ELSE cur

\* a worker that forgets the error of a failed request
ErrOrForget(err, e) == err

\* err.or(Some(e)) in run_task
ErrOr(err, e) == IF err # NoError THEN err ELSE e

\* spawn_task without the is_none test: every call spawns
spawn_task_always(t) == NextWorker

\* spawn_task that never spawns
spawn_task_never(t) == t

\* MlflowRunWriter::spawn_task: the value of d.task after the call
spawn_task(t) == IF t = NoTask THEN NextWorker ELSE t

\* the threads after spawn_task changed d.task from t to t2
Spawned(t, t2) == IF t2 # t THEN [wpc EXCEPT ![t2] = "lock"] ELSE wpc

\* a guard that is never dropped
KeepGuard(holder) == holder

\* the holder of the Mutex after drop(d) / the end of the guard's scope
DropGuard(holder) == Free

\* insertion at the front instead of push
push_front(ms, new) == new \o ms

\* Vec::push of the records new onto d.metrics, in order
push(ms, new) == ms \o new

\* clone instead of take: the pending list is not emptied
take_clone(ms) == [taken |-> ms, left |-> ms]

\* std::mem::take(&mut d.metrics): the batch taken and what is left behind
take(ms) == [taken |-> ms, left |-> <<>>]

\* An entry of ops: the request (kind, issuing thread, metric list or status
\* and end_time), its outcome, and two history fields: at = the number of
\* facade calls begun when the operation ended, stored_at = the number of
\* facade calls that had taken the Mutex when its error was stored in
\* Data.error (-1: never)
BatchOp(w, ms) == [kind |-> "log_batch", worker |-> w, metrics |-> ms,
                   status |-> "Running", end_time |-> NoTime, outcome |-> "inflight",
                   at |-> -1, stored_at |-> -1]
UpdateOp(w, st, et) == [kind |-> "update_run", worker |-> w, metrics |-> <<>>,
                        status |-> st, end_time |-> et, outcome |-> "inflight",
                        at |-> -1, stored_at |-> -1]
ParamOp == [kind |-> "log_param", worker |-> Facade, metrics |-> <<>>,
            status |-> "Running", end_time |-> NoTime, outcome |-> "inflight",
            at |-> -1, stored_at |-> -1]

\* the facade is inside end() called by finish()
InFinish == fpc \in {"end_body", "end_join", "end_relock", "end_take_error"} /\ fcall.name = "finish"

\* number of calls of the public methods begun so far (history)
CallsBegun ==
    Len(returns) + (IF fpc \in {"log_metric", "log_metrics_lock", "log_metrics", "in_log_param"} \/ InFinish
                    THEN 1 ELSE 0)

\* number of calls that have taken the Mutex (log_param: issued its request)
\* so far (history)
CallsLocked ==
    Len(returns) + (IF fpc \in {"log_metric", "log_metrics", "in_log_param"} \/ InFinish
                    THEN 1 ELSE 0)

\* Metric { key, value, timestamp, step }: key, value and step are stood for
\* by id; call is a history field, the number of the facade call that
\* pushed the record
Metric(i, ts) == [id |-> i, timestamp |-> ts, call |-> CallsBegun]

\* n metrics pushed by one call, all with timestamp ts
Pushed(n, ts) == [k \in 1..n |-> Metric(Len(enqueued) + k, ts)]

LogCalls == Len(SelectSeq(returns, LAMBDA r : r.call \in {"log_metric", "log_metrics", "log_param"}))

\* ---- MlflowClient::LOG_BATCH_MAX_* ----
LOG_BATCH_MAX_TOTAL == 1000
LOG_BATCH_MAX_METRICS == 1000
LOG_BATCH_MAX_PARAMS == 100
LOG_BATCH_MAX_TAGS == 100

\* ---- MlflowRun::log_batch ----
\* no call of log_batch in progress
IdleBatch == [pc |-> "idle", nm |-> 0, np |-> 0, nt |-> 0, end |-> 0,
              reqs |-> <<>>, result |-> "none"]

\* lengths of the input slices: around the multiples of the limit L
Lens(L) == {n \in 0..(MaxChunks * L + 1) :
               \E k \in 0..MaxChunks, d \in {-1, 0, 1} : n = k * L + d}

\* the single-request test without the total
FitsOneRequestNoTotal(nm, np, nt) ==
    /\ nm <= LOG_BATCH_MAX_METRICS
    /\ np <= LOG_BATCH_MAX_PARAMS
    /\ nt <= LOG_BATCH_MAX_TAGS

\* lines 129-132: everything fits into one request
FitsOneRequest(nm, np, nt) ==
    /\ nm + np + nt <= LOG_BATCH_MAX_TOTAL
    /\ nm <= LOG_BATCH_MAX_METRICS
    /\ np <= LOG_BATCH_MAX_PARAMS
    /\ nt <= LOG_BATCH_MAX_TAGS

\* the end of the next chunk without .min(len)
ChunkEndNoMin(end, max, len) == end + max

\* lines 140, 147, 154: end = (end + MAX).min(len)
ChunkEnd(end, max, len) == IF end + max < len THEN end + max ELSE len

\* the limit and the input length of the kind a loop sends
KindMax(k) == CASE k = "metrics" -> LOG_BATCH_MAX_METRICS
                [] k = "params" -> LOG_BATCH_MAX_PARAMS
                [] k = "tags" -> LOG_BATCH_MAX_TAGS
KindLen(k) == CASE k = "metrics" -> lb.nm
                [] k = "params" -> lb.np
                [] k = "tags" -> lb.nt

\* lines 137-158: the loop that follows the loop of kind k
KindAfter(k) == CASE k = "metrics" -> "params"
                  [] k = "params" -> "tags"
                  [] k = "tags" -> "done"

\* a request client.log_batch(id, &metrics[m], &params[p], &tags[t]): the
\* slices as ranges <<start, end>>, and its outcome
Request(m, p, t, o) == [m |-> m, p |-> p, t |-> t, outcome |-> o]
ChunkRequest(k, start, end, o) ==
    Request(IF k = "metrics" THEN <<start, end>> ELSE <<0, 0>>,
            IF k = "params" THEN <<start, end>> ELSE <<0, 0>>,
            IF k = "tags" THEN <<start, end>> ELSE <<0, 0>>, o)

\* line 124: log_batch is called with slices of nm, np and nt entries
LbCall(nm, np, nt) ==
    /\ lb.pc = "idle" /\ lk.pc = "idle"
    /\ lb' = [IdleBatch EXCEPT !.pc = "check", !.nm = nm, !.np = np, !.nt = nt]
    /\ UNCHANGED <<writerVars, lk>>

\* lines 125-128: nothing to send
LbEmpty ==
    /\ lb.pc = "check"
    /\ lb.nm + lb.np + lb.nt = 0
    /\ lb' = [lb EXCEPT !.pc = "done", !.result = "Ok"]
    /\ UNCHANGED <<writerVars, lk>>

\* lines 129-136: one request carries everything; its result is the result
LbSingle(o) ==
    /\ lb.pc = "check"
    /\ lb.nm + lb.np + lb.nt # 0
    /\ FitsOneRequest(lb.nm, lb.np, lb.nt)
    /\ lb' = [lb EXCEPT !.pc = "done",
                        !.reqs = <<Request(<<0, lb.nm>>, <<0, lb.np>>, <<0, lb.nt>>, o)>>,
                        !.result = IF o = "ok" THEN "Ok" ELSE "Err"]
    /\ UNCHANGED <<writerVars, lk>>

\* line 137: the input is split; the metrics loop is first
LbSplit ==
    /\ lb.pc = "check"
    /\ lb.nm + lb.np + lb.nt # 0
    /\ ~FitsOneRequest(lb.nm, lb.np, lb.nt)
    /\ lb' = [lb EXCEPT !.pc = "metrics", !.end = 0]
    /\ UNCHANGED <<writerVars, lk>>

\* a loop that notes the error of a chunk and goes on with the next chunk
LbChunkNoReturn(o) ==
    /\ lb.pc \in {"metrics", "params", "tags"}
    /\ lb.end < KindLen(lb.pc)
    /\ LET start == lb.end
           end == ChunkEnd(lb.end, KindMax(lb.pc), KindLen(lb.pc))
       IN lb' = [lb EXCEPT !.end = end,
                           !.reqs = Append(lb.reqs, ChunkRequest(lb.pc, start, end, o)),
                           !.result = IF o = "ok" THEN lb.result ELSE "Err"]
    /\ UNCHANGED <<writerVars, lk>>

\* lines 138-143, 145-150, 152-157: one iteration of a loop: the next chunk
\* is sent; an error returns at once (?)
LbChunk(o) ==
    /\ lb.pc \in {"metrics", "params", "tags"}
    /\ lb.end < KindLen(lb.pc)
    /\ LET start == lb.end
           end == ChunkEnd(lb.end, KindMax(lb.pc), KindLen(lb.pc))
       IN lb' = [lb EXCEPT !.end = end,
                           !.reqs = Append(lb.reqs, ChunkRequest(lb.pc, start, end, o)),
                           !.pc = IF o = "ok" THEN lb.pc ELSE "done",
                           !.result = IF o = "ok" THEN lb.result ELSE "Err"]
    /\ UNCHANGED <<writerVars, lk>>

\* lines 144, 151, 158: a loop ends; the next one starts with end = 0, and
\* after the last one log_batch returns Ok
LbNextKind ==
    /\ lb.pc \in {"metrics", "params", "tags"}
    /\ lb.end >= KindLen(lb.pc)
    /\ lb' = [lb EXCEPT !.pc = KindAfter(lb.pc), !.end = 0,
                        !.result = IF KindAfter(lb.pc) = "done" THEN "Ok" ELSE lb.result]
    /\ UNCHANGED <<writerVars, lk>>

\* ---- existence lookups ----
\* Error::ApiError { error_code, .. } and the other variants of Error
ApiError(code) == [variant |-> "ApiError", error_code |-> code]
OtherError(variant) == [variant |-> variant, error_code |-> ""]
Errors == {ApiError("RESOURCE_DOES_NOT_EXIST"), ApiError("RESOURCE_ALREADY_EXISTS"),
           ApiError("INTERNAL_ERROR"), OtherError("ReqwestError"), OtherError("JsonError")}

\* what a request of the client returns: Ok(value) or Err(error)
OkResponse(v) == [ok |-> TRUE, value |-> v, error |-> OtherError("none")]
ErrResponse(e) == [ok |-> FALSE, value |-> "none", error |-> e]
Responses(v) == {OkResponse(v)} \cup {ErrResponse(e) : e \in Errors}

\* a not-found test that accepts every ApiError
is_any_api_error(e) == e.variant = "ApiError"

\* Error::is_resource_does_not_exist
is_resource_does_not_exist(e) ==
    e.variant = "ApiError" /\ e.error_code = "RESOURCE_DOES_NOT_EXIST"

\* utils::none_if_not_exist, with the infallible closures of its callers:
\* Ok(Some(value)), Ok(None) or Err(error)
none_if_not_exist(r) ==
    IF r.ok THEN [kind |-> "Some", value |-> r.value, error |-> r.error]
    ELSE IF is_resource_does_not_exist(r.error)
         THEN [kind |-> "None", value |-> "none", error |-> OtherError("none")]
         ELSE [kind |-> "Err", value |-> "none", error |-> r.error]

\* no lookup in progress
IdleLookup == [pc |-> "idle", fn |-> "none", first |-> OkResponse("none"),
               reqs |-> <<>>, result |-> [kind |-> "none", value |-> "none", error |-> OtherError("none")]]

LookupFns == {"experiment", "experiment_by_name", "run"}

\* Mlflow::experiment, Mlflow::experiment_by_name, MlflowExperiment::run:
\* one get request, whose response r goes through none_if_not_exist
Lookup(fn, r) ==
    /\ lb.pc = "idle" /\ lk.pc = "idle"
    /\ lk' = [lk EXCEPT !.pc = "done", !.fn = fn, !.first = r,
                        !.reqs = <<"get">>, !.result = none_if_not_exist(r)]
    /\ UNCHANGED <<writerVars, lb>>

\* Mlflow::create_experiment_if_not_exists, line 92: experiment_by_name(name)?
CreateIfLookup(r) ==
    /\ lb.pc = "idle" /\ lk.pc = "idle"
    /\ LET found == none_if_not_exist(r)
       IN lk' = [lk EXCEPT !.pc = IF found.kind = "None" THEN "create" ELSE "done",
                           !.fn = "create_experiment_if_not_exists",
                           !.first = r,
                           !.reqs = <<"get">>,
                           !.result = IF found.kind = "None" THEN lk.result ELSE found]
    /\ UNCHANGED <<writerVars, lb>>

\* Mlflow::create_experiment, line 81: client.create_experiment(..)?
CreateIfCreate(r) ==
    /\ lk.pc = "create"
    /\ lk' = [lk EXCEPT !.pc = IF r.ok THEN "get" ELSE "done",
                        !.reqs = Append(lk.reqs, "create"),
                        !.result = IF r.ok THEN lk.result
                                   ELSE [kind |-> "Err", value |-> "none", error |-> r.error]]
    /\ UNCHANGED <<writerVars, lb>>

\* Mlflow::create_experiment, lines 82-83: client.get_experiment(id)?
CreateIfGet(r) ==
    /\ lk.pc = "get"
    /\ lk' = [lk EXCEPT !.pc = "done",
                        !.reqs = Append(lk.reqs, "get"),
                        !.result = IF r.ok THEN [kind |-> "Some", value |-> r.value, error |-> r.error]
                                   ELSE [kind |-> "Err", value |-> "none", error |-> r.error]]
    /\ UNCHANGED <<writerVars, lb>>

Init ==
    /\ metrics = <<>>
    /\ error = NoError
    /\ status = "Running"
    /\ end_time = NoTime
    /\ task = NoTask
    /\ lock = Free
    /\ is_end = FALSE
    /\ fpc = "idle"
    /\ fcall = NoCall
    /\ wpc = [w \in Workers |-> "none"]
    /\ werr = [w \in Workers |-> NoError]
    /\ wbatch = [w \in Workers |-> <<>>]
    /\ now = 0
    /\ ops = <<>>
    /\ returns = <<>>
    /\ enqueued = <<>>
    /\ lb = IdleBatch
    /\ lk = IdleLookup

\* Timestamp::now(): the values a read of the clock can give when the last
\* read gave t (the clock does not go back; now holds the last value read)
Clock(t) == t..MaxTime

\* ---- MlflowRunWriter::log_metric ----
\* line 113: self.data.lock()
LogMetricLock ==
    /\ fpc = "idle"
    /\ LogCalls < MaxCalls
    /\ lock = Free
    /\ lock' = Facade
    /\ fpc' = "log_metric"
    /\ fcall' = [NoCall EXCEPT !.name = "log_metric", !.n = 1]
    /\ UNCHANGED <<apiVars, dataVars, is_end, workerVars, now, ops, returns, enqueued>>

\* log_metric that sends its metric itself, on the calling thread, and
\* returns the error of that request (as MlflowRun::log_metric does)
LogMetricBodySync(t) ==
    /\ fpc = "log_metric"
    /\ now' = t
    /\ LET new == Pushed(1, t)
       IN /\ enqueued' = enqueued \o new
          /\ ops' = Append(ops, [BatchOp(Facade, new) EXCEPT !.outcome = "err", !.at = CallsBegun])
          /\ returns' = Append(returns, [call |-> "log_metric", result |-> Len(ops) + 1])
    /\ lock' = DropGuard(lock)
    /\ fpc' = "idle"
    /\ fcall' = NoCall
    /\ UNCHANGED <<apiVars, dataVars, is_end, workerVars>>

\* lines 114-122: push with timestamp t = Timestamp::now(), spawn_task,
\* take_error, return (the guard is dropped)
LogMetricBody(t) ==
    /\ fpc = "log_metric"
    /\ now' = t
    /\ LET new == Pushed(1, t)
           t2 == spawn_task(task)
           r == take_error(t2, error)
       IN /\ metrics' = push(metrics, new)
          /\ enqueued' = enqueued \o new
          /\ wpc' = Spawned(task, t2)
          /\ task' = r.task
          /\ error' = r.error
          /\ returns' = Append(returns, [call |-> "log_metric", result |-> r.result])
    /\ lock' = DropGuard(lock)
    /\ fpc' = "idle"
    /\ fcall' = NoCall
    /\ UNCHANGED <<apiVars, status, end_time, is_end, werr, wbatch, ops>>

\* ---- MlflowRunWriter::log_metrics ----
\* line 129: the timestamp t is read before the lock is taken; n is the
\* length of the slice
LogMetricsNow(n, t) ==
    /\ fpc = "idle"
    /\ LogCalls < MaxCalls
    /\ now' = t
    /\ fpc' = "log_metrics_lock"
    /\ fcall' = [NoCall EXCEPT !.name = "log_metrics", !.n = n, !.ts = t]
    /\ UNCHANGED <<apiVars, dataVars, lock, is_end, workerVars, ops, returns, enqueued>>

\* line 130: self.data.lock()
LogMetricsLock ==
    /\ fpc = "log_metrics_lock"
    /\ lock = Free
    /\ lock' = Facade
    /\ fpc' = "log_metrics"
    /\ UNCHANGED <<apiVars, dataVars, is_end, fcall, workerVars, now, ops, returns, enqueued>>

\* log_metrics that takes the Mutex anew for every record of the slice
LogMetricsBodyPerRecord ==
    /\ fpc = "log_metrics"
    /\ IF fcall.n > 1
       THEN LET new == Pushed(1, fcall.ts)
                t2 == spawn_task(task)
            IN /\ metrics' = push(metrics, new)
               /\ enqueued' = enqueued \o new
               /\ wpc' = Spawned(task, t2)
               /\ task' = t2
               /\ fcall' = [fcall EXCEPT !.n = fcall.n - 1]
               /\ fpc' = "log_metrics_lock"
               /\ UNCHANGED <<error, returns>>
       ELSE LET new == Pushed(fcall.n, fcall.ts)
                t2 == spawn_task(task)
                r == take_error(t2, error)
            IN /\ metrics' = push(metrics, new)
               /\ enqueued' = enqueued \o new
               /\ wpc' = Spawned(task, t2)
               /\ task' = r.task
               /\ error' = r.error
               /\ returns' = Append(returns, [call |-> "log_metrics", result |-> r.result])
               /\ fpc' = "idle"
               /\ fcall' = NoCall
    /\ lock' = DropGuard(lock)
    /\ UNCHANGED <<apiVars, status, end_time, is_end, werr, wbatch, now, ops>>

\* lines 131-141: push every record, spawn_task, take_error, return
LogMetricsBody ==
    /\ fpc = "log_metrics"
    /\ LET new == Pushed(fcall.n, fcall.ts)
           t2 == spawn_task(task)
           r == take_error(t2, error)
       IN /\ metrics' = push(metrics, new)
          /\ enqueued' = enqueued \o new
          /\ wpc' = Spawned(task, t2)
          /\ task' = r.task
          /\ error' = r.error
          /\ returns' = Append(returns, [call |-> "log_metrics", result |-> r.result])
    /\ lock' = DropGuard(lock)
    /\ fpc' = "idle"
    /\ fcall' = NoCall
    /\ UNCHANGED <<apiVars, status, end_time, is_end, werr, wbatch, now, ops>>

\* ---- MlflowRunWriter::log_param ----
\* line 83: self.run.log_param issues its request on the calling thread
LogParamCall ==
    /\ fpc = "idle"
    /\ LogCalls < MaxCalls
    /\ fpc' = "in_log_param"
    /\ fcall' = [NoCall EXCEPT !.name = "log_param"]
    /\ ops' = Append(ops, ParamOp)
    /\ UNCHANGED <<apiVars, dataVars, lock, is_end, workerVars, now, returns, enqueued>>

\* log_param that ends like log_metric: it returns the stored worker error,
\* if there is one, and clears it
LogParamReturnTakeError(outcome) ==
    /\ fpc = "in_log_param"
    /\ LET i == CHOOSE j \in 1..Len(ops) : ops[j].worker = Facade /\ ops[j].outcome = "inflight"
       IN /\ ops' = [ops EXCEPT ![i].outcome = outcome, ![i].at = CallsBegun]
          /\ returns' = Append(returns, [call |-> "log_param",
                                         result |-> IF error # NoError THEN error
                                                    ELSE IF outcome = "err" THEN i ELSE NoError])
    /\ error' = NoError
    /\ fpc' = "idle"
    /\ fcall' = NoCall
    /\ UNCHANGED <<apiVars, metrics, status, end_time, task, lock, is_end, workerVars, now, enqueued>>

\* line 83: the request returns Ok or Err; the result is the call's result
LogParamReturn(outcome) ==
    /\ fpc = "in_log_param"
    /\ LET i == CHOOSE j \in 1..Len(ops) : ops[j].worker = Facade /\ ops[j].outcome = "inflight"
       IN /\ ops' = [ops EXCEPT ![i].outcome = outcome, ![i].at = CallsBegun]
          /\ returns' = Append(returns, [call |-> "log_param",
                                         result |-> IF outcome = "err" THEN i ELSE NoError])
    /\ fpc' = "idle"
    /\ fcall' = NoCall
    /\ UNCHANGED <<apiVars, dataVars, lock, is_end, workerVars, now, enqueued>>

\* ---- MlflowRunWriter::finish, Drop, MlflowRunWriter::end ----
\* finish and drop with their statuses exchanged
EndStatusSwapped(name) == IF name = "finish" THEN "Failed" ELSE "Finished"

\* the status end() is called with
EndStatus(name) == IF name = "finish" THEN "Finished" ELSE "Failed"

\* a drop handler without the is_end test
ShouldEndAlways(flag) == TRUE

\* line 180: drop() runs end() only if is_end is not set
ShouldEnd(flag) == ~flag

\* finish() (line 149) or drop() with !is_end (lines 180-181) enters end():
\* lines 152-154: is_end = true, self.data.lock()
EndLock(name) ==
    /\ fpc = "idle"
    /\ name = "drop" => ShouldEnd(is_end)
    /\ lock = Free
    /\ lock' = Facade
    /\ is_end' = TRUE
    /\ fpc' = "end_body"
    /\ fcall' = [NoCall EXCEPT !.name = name]
    /\ UNCHANGED <<apiVars, dataVars, workerVars, now, ops, returns, enqueued>>

\* end() that keeps the guard while it joins the worker (no drop(d))
EndBodyHolding(t) ==
    /\ fpc = "end_body"
    /\ now' = t
    /\ LET t2 == spawn_task(task)
       IN /\ wpc' = Spawned(task, t2)
          /\ fcall' = [fcall EXCEPT !.joined = t2]
    /\ status' = EndStatus(fcall.name)
    /\ end_time' = t
    /\ task' = NoTask
    /\ fpc' = "end_join"
    /\ UNCHANGED <<apiVars, metrics, error, lock, is_end, werr, wbatch, ops, returns, enqueued>>

\* lines 155-159: status, end_time = t = Timestamp::now(), spawn_task,
\* d.task.take(), drop(d)
EndBody(t) ==
    /\ fpc = "end_body"
    /\ now' = t
    /\ LET t2 == spawn_task(task)
       IN /\ wpc' = Spawned(task, t2)
          /\ fcall' = [fcall EXCEPT !.joined = t2]
    /\ status' = EndStatus(fcall.name)
    /\ end_time' = t
    /\ task' = NoTask
    /\ lock' = DropGuard(lock)
    /\ fpc' = "end_join"
    /\ UNCHANGED <<apiVars, metrics, error, is_end, werr, wbatch, ops, returns, enqueued>>

\* what the caller gets when end() returns result r: finish hands it to its
\* caller, drop discards it (let _ =)
EndReturn(r) ==
    IF fcall.name = "finish"
    THEN /\ returns' = Append(returns, [call |-> "finish", result |-> r])
         /\ fpc' = "finish_returned"
         /\ fcall' = [fcall EXCEPT !.result = r]
    ELSE /\ returns' = returns
         /\ fpc' = "gone"
         /\ fcall' = [fcall EXCEPT !.result = r]

\* lines 160-164: task.join(); a panicked worker makes end() return early
EndJoin ==
    /\ fpc = "end_join"
    /\ IF fcall.joined = NoTask
       THEN /\ fpc' = "end_relock"
            /\ UNCHANGED <<fcall, returns>>
       ELSE /\ is_finished(fcall.joined)
            /\ IF join_is_err(fcall.joined)
               THEN EndReturn(TaskJoinError)
               ELSE /\ fpc' = "end_relock"
                    /\ UNCHANGED <<fcall, returns>>
    /\ UNCHANGED <<apiVars, dataVars, lock, is_end, workerVars, now, ops, enqueued>>

\* line 165: self.data.lock()
EndRelock ==
    /\ fpc = "end_relock"
    /\ lock = Free
    /\ lock' = Facade
    /\ fpc' = "end_take_error"
    /\ UNCHANGED <<apiVars, dataVars, is_end, fcall, workerVars, now, ops, returns, enqueued>>

\* lines 166-167: take_error, return
EndTakeError ==
    /\ fpc = "end_take_error"
    /\ LET r == take_error(task, error)
       IN /\ task' = r.task
          /\ error' = r.error
          /\ EndReturn(r.result)
    /\ lock' = DropGuard(lock)
    /\ UNCHANGED <<apiVars, metrics, status, end_time, is_end, workerVars, now, ops, enqueued>>

\* lines 179-183: drop() of the writer consumed by finish(): end(Failed) is
\* entered only if is_end is not set
DropAfterFinish ==
    /\ fpc = "finish_returned"
    /\ IF ShouldEnd(is_end)
       THEN /\ lock = Free
            /\ lock' = Facade
            /\ is_end' = TRUE
            /\ fpc' = "end_body"
            /\ fcall' = [NoCall EXCEPT !.name = "drop"]
       ELSE /\ fpc' = "gone"
            /\ UNCHANGED <<lock, is_end, fcall>>
    /\ UNCHANGED <<apiVars, dataVars, workerVars, now, ops, returns, enqueued>>

\* ---- run_task ----
\* the operation worker w has in flight
OpOf(w) == CHOOSE i \in 1..Len(ops) : ops[i].worker = w /\ ops[i].outcome = "inflight"

\* the drain condition of line 190
ShouldDrain(e, ms) == e = NoError /\ ms # <<>>

\* lines 189, 208: data.lock()
WorkerLock(w) ==
    /\ wpc[w] \in {"lock", "relock"}
    /\ lock = Free
    /\ lock' = w
    /\ wpc' = [wpc EXCEPT ![w] = IF wpc[w] = "lock" THEN "check" ELSE "exit"]
    /\ UNCHANGED <<apiVars, dataVars, is_end, fpc, fcall, werr, wbatch, now, ops, returns, enqueued>>

\* lines 190-193: take the whole pending list, drop the guard, call log_batch
WorkerTake(w) ==
    /\ wpc[w] = "check"
    /\ ShouldDrain(error, metrics)
    /\ wbatch' = [wbatch EXCEPT ![w] = take(metrics).taken]
    /\ metrics' = take(metrics).left
    /\ lock' = DropGuard(lock)
    /\ ops' = Append(ops, BatchOp(w, take(metrics).taken))
    /\ wpc' = [wpc EXCEPT ![w] = "in_log_batch"]
    /\ UNCHANGED <<apiVars, error, status, end_time, task, is_end, fpc, fcall, werr, now, returns, enqueued>>

\* lines 193-196: log_batch returns Ok or Err, or panics; continue
WorkerLogBatchReturn(w, outcome) ==
    /\ wpc[w] = "in_log_batch"
    /\ LET i == OpOf(w)
       IN /\ ops' = [ops EXCEPT ![i].outcome = outcome, ![i].at = CallsBegun]
          /\ werr' = [werr EXCEPT ![w] = IF outcome = "err" THEN ErrOr(werr[w], i) ELSE werr[w]]
    /\ wpc' = [wpc EXCEPT ![w] = IF outcome = "panic" THEN "panicked" ELSE "lock"]
    /\ UNCHANGED <<apiVars, dataVars, lock, is_end, fpc, fcall, wbatch, now, returns, enqueued>>

\* a worker that issues the update as soon as a terminal status is
\* requested, without looking at the pending list
WorkerUpdateFirst(w) ==
    /\ wpc[w] = "check"
    /\ status # "Running"
    /\ lock' = DropGuard(lock)
    /\ ops' = Append(ops, UpdateOp(w, status, end_time))
    /\ wpc' = [wpc EXCEPT ![w] = "in_update"]
    /\ UNCHANGED <<apiVars, dataVars, is_end, fpc, fcall, werr, wbatch, now, returns, enqueued>>

\* lines 198-205: a terminal status is requested: drop the guard, call update
WorkerUpdate(w) ==
    /\ wpc[w] = "check"
    /\ ~ShouldDrain(error, metrics)
    /\ status # "Running"
    /\ lock' = DropGuard(lock)
    /\ ops' = Append(ops, UpdateOp(w, status, end_time))
    /\ wpc' = [wpc EXCEPT ![w] = "in_update"]
    /\ UNCHANGED <<apiVars, dataVars, is_end, fpc, fcall, werr, wbatch, now, returns, enqueued>>

\* lines 205-207: update returns Ok or Err, or panics
WorkerUpdateReturn(w, outcome) ==
    /\ wpc[w] = "in_update"
    /\ LET i == OpOf(w)
       IN /\ ops' = [ops EXCEPT ![i].outcome = outcome, ![i].at = CallsBegun]
          /\ werr' = [werr EXCEPT ![w] = IF outcome = "err" THEN ErrOr(werr[w], i) ELSE werr[w]]
    /\ wpc' = [wpc EXCEPT ![w] = IF outcome = "panic" THEN "panicked" ELSE "relock"]
    /\ UNCHANGED <<apiVars, dataVars, lock, is_end, fpc, fcall, wbatch, now, returns, enqueued>>

\* a worker that releases the Mutex after deciding to exit and takes it
\* again to clear the handle
WorkerIdleUnlocked(w) ==
    /\ wpc[w] = "check"
    /\ ~ShouldDrain(error, metrics)
    /\ status = "Running"
    /\ lock' = Free
    /\ wpc' = [wpc EXCEPT ![w] = "relock"]
    /\ UNCHANGED <<apiVars, dataVars, is_end, fpc, fcall, werr, wbatch, now, ops, returns, enqueued>>

\* line 198 false: nothing to drain and the run is still Running
WorkerIdle(w) ==
    /\ wpc[w] = "check"
    /\ ~ShouldDrain(error, metrics)
    /\ status = "Running"
    /\ wpc' = [wpc EXCEPT ![w] = "exit"]
    /\ UNCHANGED <<apiVars, dataVars, lock, is_end, fpc, fcall, werr, wbatch, now, ops, returns, enqueued>>

\* lines 210-213: push_error, d.task.take(), break; the guard is dropped and
\* the thread's closure returns
WorkerExit(w) ==
    /\ wpc[w] = "exit"
    /\ error' = push_error(error, werr[w])
    /\ ops' = IF error' # error
              THEN [ops EXCEPT ![error'].stored_at = CallsLocked]
              ELSE ops
    /\ task' = NoTask
    /\ lock' = DropGuard(lock)
    /\ wpc' = [wpc EXCEPT ![w] = "done"]
    /\ UNCHANGED <<apiVars, metrics, status, end_time, is_end, fpc, fcall, werr, wbatch, now, returns, enqueued>>

Outcomes == {"ok", "err", "panic"}

\* lengths of the slices passed to log_metrics: empty, and several records
SliceLens == {0, MaxBatch}

Next ==
    \/ LogMetricLock
    \/ \E t \in Clock(now) : LogMetricBody(t)
    \/ \E n \in SliceLens, t \in Clock(now) : LogMetricsNow(n, t)
    \/ LogMetricsLock
    \/ LogMetricsBody
    \/ LogParamCall
    \/ \E o \in {"ok", "err"} : LogParamReturn(o)
    \/ \E name \in {"finish", "drop"} : EndLock(name)
    \/ \E t \in Clock(now) : EndBody(t)
    \/ EndJoin
    \/ EndRelock
    \/ EndTakeError
    \/ DropAfterFinish
    \/ \E w \in Workers : WorkerLock(w)
    \/ \E w \in Workers : WorkerTake(w)
    \/ \E w \in Workers, o \in Outcomes : WorkerLogBatchReturn(w, o)
    \/ \E w \in Workers : WorkerUpdate(w)
    \/ \E w \in Workers, o \in Outcomes : WorkerUpdateReturn(w, o)
    \/ \E w \in Workers : WorkerIdle(w)
    \/ \E w \in Workers : WorkerExit(w)

Spec == Init /\ [][Next]_vars

\* ---- network operations that return, threads that are scheduled ----
\* a network operation that returns: success or error
Returns == {"ok", "err"}

\* the steps of the writer when no network operation panics
NextLive ==
    \/ LogMetricLock
    \/ \E t \in Clock(now) : LogMetricBody(t)
    \/ \E n \in SliceLens, t \in Clock(now) : LogMetricsNow(n, t)
    \/ LogMetricsLock
    \/ LogMetricsBody
    \/ LogParamCall
    \/ \E o \in Returns : LogParamReturn(o)
    \/ \E name \in {"finish", "drop"} : EndLock(name)
    \/ \E t \in Clock(now) : EndBody(t)
    \/ EndJoin
    \/ EndRelock
    \/ EndTakeError
    \/ DropAfterFinish
    \/ \E w \in Workers : WorkerLock(w)
    \/ \E w \in Workers : WorkerTake(w)
    \/ \E w \in Workers, o \in Returns : WorkerLogBatchReturn(w, o)
    \/ \E w \in Workers : WorkerUpdate(w)
    \/ \E w \in Workers, o \in Returns : WorkerUpdateReturn(w, o)
    \/ \E w \in Workers : WorkerIdle(w)
    \/ \E w \in Workers : WorkerExit(w)

\* a thread that can take a step is scheduled: the facade inside a call
\* (once it has the Mutex, and inside end()), every worker thread, and every
\* request in flight (it returns)
Fairness ==
    /\ WF_vars(\E t \in Clock(now) : LogMetricBody(t))
    /\ WF_vars(LogMetricsLock)
    /\ WF_vars(LogMetricsBody)
    /\ WF_vars(\E o \in Returns : LogParamReturn(o))
    /\ WF_vars(\E t \in Clock(now) : EndBody(t))
    /\ WF_vars(EndJoin)
    /\ WF_vars(EndRelock)
    /\ WF_vars(EndTakeError)
    /\ \A w \in Workers :
          /\ WF_vars(WorkerLock(w))
          /\ WF_vars(WorkerTake(w))
          /\ WF_vars(\E o \in Returns : WorkerLogBatchReturn(w, o))
          /\ WF_vars(WorkerUpdate(w))
          /\ WF_vars(\E o \in Returns : WorkerUpdateReturn(w, o))
          /\ WF_vars(WorkerIdle(w))
          /\ WF_vars(WorkerExit(w))

SpecLive == Init /\ [][NextLive]_vars /\ Fairness

\* one call of MlflowRun::log_batch or of an existence lookup
NextApi ==
    \/ \E nm \in Lens(LOG_BATCH_MAX_METRICS), np \in Lens(LOG_BATCH_MAX_PARAMS),
          nt \in Lens(LOG_BATCH_MAX_TAGS) : LbCall(nm, np, nt)
    \/ LbEmpty
    \/ \E o \in {"ok", "err"} : LbSingle(o)
    \/ LbSplit
    \/ \E o \in {"ok", "err"} : LbChunk(o)
    \/ LbNextKind
    \/ \E fn \in LookupFns, r \in Responses("existing") : Lookup(fn, r)
    \/ \E r \in Responses("existing") : CreateIfLookup(r)
    \/ \E r \in Responses("id") : CreateIfCreate(r)
    \/ \E r \in Responses("created") : CreateIfGet(r)

SpecApi == Init /\ [][NextApi]_vars

TypeOK ==
    /\ error \in (0..Len(ops))
    /\ status \in {"Running", "Finished", "Failed"}
    /\ end_time \in {NoTime} \cup (0..MaxTime)
    /\ task \in {NoTask} \cup Workers
    /\ lock \in {Free, Facade} \cup Workers
    /\ is_end \in BOOLEAN
    /\ now \in 0..MaxTime
\* ======================= properties =======================

RECURSIVE ConcatBatches(_)
\* the metric lists of the first i operations, batch-log operations only,
\* concatenated in the order of issue
ConcatBatches(i) ==
    IF i = 0 THEN <<>>
    ELSE ConcatBatches(i - 1) \o (IF ops[i].kind = "log_batch" THEN ops[i].metrics ELSE <<>>)

Sent == ConcatBatches(Len(ops))
TimesSent(m) == Cardinality({k \in 1..Len(Sent) : Sent[k] = m})
OpIds == 1..Len(ops)
BatchOps == {i \in OpIds : ops[i].kind = "log_batch"}
UpdateOps == {i \in OpIds : ops[i].kind = "update_run"}
FailedBatchOps == {i \in BatchOps : ops[i].outcome = "err"}
FinishResult == returns[Len(returns)].result
\* the results of the calls that returned before the last one
EarlierResults == {returns[j].result : j \in 1..(Len(returns) - 1)}
\* the first log_metric / log_metrics call after the first c calls (0 if
\* that call has not returned yet)
NextLogCall(c) ==
    LET later == {j \in (c + 1)..Len(returns) : returns[j].call \in {"log_metric", "log_metrics"}}
    IN IF later = {} THEN 0 ELSE CHOOSE j \in later : \A k \in later : j <= k

\* C1: at every instant at most one worker thread of the writer is alive.
C1_AtMostOneWorker == Cardinality(LiveWorkers) <= 1

\* C1 witness: a second log call has returned while the worker spawned by
\* the first one is still alive, and no second worker was spawned.
C1_Witness ==
    /\ Len(returns) >= 2
    /\ returns[1].call = "log_metric" /\ returns[2].call = "log_metric"
    /\ NumSpawned = 1
    /\ LiveWorkers # {}

\* C2 (as stated): once finish() has returned, every enqueued metric is in
\* the metric list of exactly one batch-log operation.
C2_Original ==
    fpc = "finish_returned" =>
        \A k \in 1..Len(enqueued) : TimesSent(enqueued[k]) = 1

\* C3: the metric lists of the batch-log operations, concatenated in the
\* order of issue, are a prefix of the order in which the metrics were
\* appended to pending_metrics.
C3_BatchesInEnqueueOrder ==
    /\ Len(Sent) <= Len(enqueued)
    /\ Sent = SubSeq(enqueued, 1, Len(Sent))

\* C3 witness: two batch-log operations were issued, the second one with
\* more than one metric.
C3_Witness ==
    \E i, j \in BatchOps : i < j /\ Len(ops[i].metrics) >= 1 /\ Len(ops[j].metrics) >= 2

\* C4 (as stated): when a writer on which finish() was never called has
\* been dropped, a run-update with status Failed has been issued.
C4_Original ==
    (fpc = "gone" /\ fcall.name = "drop") =>
        \E i \in UpdateOps : ops[i].status = "Failed"

\* C5: when finish() has returned and every batch-log operation succeeded,
\* a run-update was issued, and every run-update issued carries status
\* Finished and an end_time not before any logged metric's timestamp.
C5_FinishedWithEndTime ==
    (fpc = "finish_returned" /\ \A i \in BatchOps : ops[i].outcome = "ok") =>
        /\ UpdateOps # {}
        /\ \A u \in UpdateOps :
              /\ ops[u].status = "Finished"
              /\ ops[u].end_time # NoTime
              /\ \A k \in 1..Len(enqueued) : ops[u].end_time >= enqueued[k].timestamp

\* C5 witness: finish() has returned after two metrics, logged at
\* different times, were sent successfully.
C5_Witness ==
    /\ fpc = "finish_returned"
    /\ Len(enqueued) >= 2
    /\ enqueued[1].timestamp < enqueued[2].timestamp
    /\ BatchOps # {}
    /\ \A i \in BatchOps : ops[i].outcome = "ok"
    /\ \E u \in UpdateOps : ops[u].end_time >= enqueued[2].timestamp

\* C6 (as stated): if a batch-log operation failed, the first log_metric /
\* log_metrics call begun after the failure returns that error.
C6_Original ==
    \A i \in FailedBatchOps :
        NextLogCall(ops[i].at) # 0 => returns[NextLogCall(ops[i].at)].result = i

\* C6 (amended): the first error of a worker that exits normally, when it
\* is the error of a batch-log operation, is stored at the worker's exit,
\* and the first log_metric / log_metrics call that takes the lock after
\* that exit returns it.
C6_ErrorAfterWorkerExit ==
    /\ \A w \in Workers :
          (wpc[w] = "done" /\ werr[w] # NoError /\ ops[werr[w]].kind = "log_batch")
              => ops[werr[w]].stored_at >= 0
    /\ \A i \in FailedBatchOps :
          (ops[i].stored_at >= 0 /\ NextLogCall(ops[i].stored_at) # 0)
              => returns[NextLogCall(ops[i].stored_at)].result = i

\* C6 witness: a batch-log operation failed, its worker has exited, and the
\* first log call that took the lock after the exit has returned the error.
C6_Witness ==
    \E i \in FailedBatchOps :
        /\ wpc[ops[i].worker] = "done"
        /\ ops[i].stored_at >= 0
        /\ NextLogCall(ops[i].stored_at) # 0
        /\ returns[NextLogCall(ops[i].stored_at)].result = i

\* C7: a call that returns a stored error leaves the error slot empty, and
\* no earlier call has returned the same error.
C7_ConsumeOnce ==
    [][(Len(returns') = Len(returns) + 1 /\ returns'[Len(returns')].call # "log_param"
        /\ returns'[Len(returns')].result > 0)
       => (/\ error' = NoError
           /\ \A j \in 1..Len(returns) : returns[j].result # returns'[Len(returns')].result)]_vars

\* C7 witness: a log call has returned a stored error and a later call,
\* after another worker ran, has returned Ok.
C7_Witness ==
    \E j, k \in 1..Len(returns) :
        /\ j < k
        /\ returns[j].call \in {"log_metric", "log_metrics"} /\ returns[j].result > 0
        /\ returns[k].call = "finish" /\ returns[k].result = NoError

\* the batch-log errors stored in Data.error and not returned by a call
\* made before finish()
OutstandingBatchErrors ==
    {i \in FailedBatchOps : ops[i].stored_at >= 0 /\ i \notin EarlierResults}

C9_FinishResult ==
    [][(InFinish /\ fpc' = "finish_returned")
       => \/ (join_is_err(fcall.joined) /\ returns'[Len(returns')].result = TaskJoinError)
          \/ (/\ ~join_is_err(fcall.joined)
              /\ wpc[fcall.joined] = "done"
              /\ returns'[Len(returns')].result = error)]_vars

\* C9 witness: finish() has returned an error stored by a worker other
\* than the one it waited for.
C9_Witness ==
    /\ fpc = "finish_returned"
    /\ FinishResult > 0
    /\ ops[FinishResult].worker # fcall.joined

\* C10: no thread holds the Mutex while its network operation is in
\* flight, and the facade does not hold it while it waits for the worker.
C10_LockFreeDuringIO ==
    /\ \A w \in Workers : wpc[w] \in {"in_log_batch", "in_update"} => lock # w
    /\ fpc \in {"in_log_param", "end_join"} => lock # Facade

\* C10 witness: the facade holds the Mutex while a batch-log operation of
\* the worker is in flight.
C10_Witness ==
    /\ lock = Facade
    /\ \E w \in Workers : wpc[w] = "in_log_batch"
\* the operations that are still in flight
InFlight == {i \in OpIds : ops[i].outcome = "inflight"}
\* finish() has returned
FinishDone == \E j \in 1..Len(returns) : returns[j].call = "finish"

\* C11: an error returned by log_metric / log_metrics is the error of a
\* failed operation that was issued before the call took the lock and that
\* carries none of the metrics the call appends.
C11_LogCallsDoNotWait ==
    [][(fpc \in {"log_metric", "log_metrics"} /\ Len(returns') = Len(returns) + 1
        /\ returns'[Len(returns')].result > 0)
       => LET r == returns'[Len(returns')].result
          IN /\ r \in 1..Len(ops)
             /\ ops[r].outcome = "err"
             /\ \A k \in 1..Len(ops[r].metrics) : ops[r].metrics[k].id <= Len(enqueued)]_vars

\* C11 witness: a log call has returned the error of an earlier operation
\* while the batch-log operation carrying its own metric is in flight.
C11_Witness ==
    /\ fpc = "idle"
    /\ Len(returns) >= 2
    /\ returns[Len(returns)].call \in {"log_metric", "log_metrics"}
    /\ returns[Len(returns)].result > 0
    /\ \E i \in InFlight :
          /\ ops[i].kind = "log_batch"
          /\ ops[i].metrics # <<>>
          /\ ops[i].metrics[Len(ops[i].metrics)] = enqueued[Len(enqueued)]

\* C12: when finish() or the finalize on discard has returned, no worker
\* is alive and no network operation is in flight.
C12_FinalizeBlocks ==
    fpc \in {"finish_returned", "gone"} => (LiveWorkers = {} /\ InFlight = {})

\* C12 witness: the discard of a writer with a live worker has returned
\* after that worker sent a batch and the terminal update.
C12_Witness ==
    /\ fpc = "gone" /\ fcall.name = "drop"
    /\ NumSpawned = 1
    /\ BatchOps # {} /\ UpdateOps # {}

\* C13: at most one run-update is issued, and once finish() has run the
\* discard does nothing: the writer is only ever in the state finish() left.
C13_FinalizeOnce ==
    /\ Cardinality(UpdateOps) <= 1
    /\ FinishDone =>
          /\ fpc \in {"finish_returned", "gone"}
          /\ status = "Finished"
          /\ \A u \in UpdateOps : ops[u].status = "Finished"

\* C13 witness: the writer was dropped after finish() returned an error.
C13_Witness ==
    /\ fpc = "gone" /\ fcall.name = "finish"
    /\ FinishResult # NoError
    /\ Cardinality(UpdateOps) = 1

\* C14: no metric is in the metric list of more than one batch-log
\* operation, and after a failed run-update no further run-update is issued.
C14_NoRetry ==
    /\ LET sent == Sent
       IN \A a, b \in 1..Len(sent) : sent[a] = sent[b] => a = b
    /\ \A u \in UpdateOps : ops[u].outcome = "err" => \A v \in UpdateOps : v <= u

\* C14 witness: a batch-log operation and the run-update have failed and
\* the writer is gone.
C14_Witness ==
    /\ fpc = "gone"
    /\ FailedBatchOps # {}
    /\ \E u \in UpdateOps : ops[u].outcome = "err"
    /\ \A k \in 1..Len(enqueued) : TimesSent(enqueued[k]) = 1

\* C15 (as stated): when the discard of a writer that was never finished
\* has returned, exactly one run-update with status Failed has been issued
\* and nothing was returned to the caller.
C15_Original ==
    (fpc = "gone" /\ fcall.name = "drop") =>
        /\ Cardinality({u \in UpdateOps : ops[u].status = "Failed"}) = 1
        /\ ~FinishDone

\* C19 (as stated): a worker issues no batch-log operation after one of
\* its batch-log operations has failed.
C19_Original ==
    \A i, j \in BatchOps :
        (ops[i].worker = ops[j].worker /\ ops[i].outcome = "err") => j <= i

\* C20: status starts as Running; status and end_time change only in end(),
\* from Running / None, to Finished for finish and Failed for discard.
C20_StatusSetOnce ==
    /\ status = "Running" /\ end_time = NoTime
    /\ [][/\ status' # status =>
               /\ status = "Running"
               /\ fpc = "end_body"
               /\ \/ fcall.name = "finish" /\ status' = "Finished"
                  \/ fcall.name = "drop" /\ status' = "Failed"
          /\ end_time' # end_time => (end_time = NoTime /\ fpc = "end_body")
          /\ (status' # status) <=> (end_time' # end_time)]_vars

\* C20 witness: a worker has issued the run-update for a dropped writer
\* and exited; status is Failed and end_time is set.
C20_Witness ==
    /\ status = "Failed" /\ end_time # NoTime
    /\ \E u \in UpdateOps : wpc[ops[u].worker] = "done"

\* ---- MlflowRun::log_batch and the existence lookups (SpecApi) ----
\* the number of entries a range <<start, end>> of a slice holds
RangeLen(r) == r[2] - r[1]
\* the non-empty ranges of one kind, in the order of the requests
KindRanges(k) ==
    LET all == [i \in 1..Len(lb.reqs) |->
                   CASE k = "metrics" -> lb.reqs[i].m
                     [] k = "params" -> lb.reqs[i].p
                     [] k = "tags" -> lb.reqs[i].t]
    IN SelectSeq(all, LAMBDA r : r[1] # r[2])
\* the ranges rs, put one after the other, are exactly the slice 0..len:
\* every entry is in one range, and the ranges are in the order of the input
Covers(rs, len) ==
    IF len = 0 THEN rs = <<>>
    ELSE /\ rs # <<>>
         /\ rs[1][1] = 0
         /\ rs[Len(rs)][2] = len
         /\ \A i \in 1..Len(rs) : rs[i][1] < rs[i][2]
         /\ \A i \in 2..Len(rs) : rs[i][1] = rs[i - 1][2]

\* C16: every request that log_batch issues carries at most
\* LOG_BATCH_MAX_METRICS metrics, LOG_BATCH_MAX_PARAMS params,
\* LOG_BATCH_MAX_TAGS tags and LOG_BATCH_MAX_TOTAL entries in total.
C16_RequestsWithinLimits ==
    \A i \in 1..Len(lb.reqs) :
        /\ RangeLen(lb.reqs[i].m) <= LOG_BATCH_MAX_METRICS
        /\ RangeLen(lb.reqs[i].p) <= LOG_BATCH_MAX_PARAMS
        /\ RangeLen(lb.reqs[i].t) <= LOG_BATCH_MAX_TAGS
        /\ RangeLen(lb.reqs[i].m) + RangeLen(lb.reqs[i].p) + RangeLen(lb.reqs[i].t)
               <= LOG_BATCH_MAX_TOTAL
\* an input over the limits of metrics and params has been sent completely:
\* full chunks of both kinds are among the requests
C16_Witness ==
    /\ lb.pc = "done" /\ lb.result = "Ok"
    /\ lb.nm > LOG_BATCH_MAX_METRICS /\ lb.np > LOG_BATCH_MAX_PARAMS
    /\ \E i, j \in 1..Len(lb.reqs) :
           /\ RangeLen(lb.reqs[i].m) = LOG_BATCH_MAX_METRICS
           /\ RangeLen(lb.reqs[j].p) = LOG_BATCH_MAX_PARAMS

\* C17: when log_batch has returned and every request succeeded, the chunks
\* of each kind, in the order sent, make up the input list of that kind
\* (each entry in exactly one request, order kept), and log_batch returned
\* Ok; with an empty input no request was sent and it returned Ok.
C17_EachEntryOnceInOrder ==
    (lb.pc = "done" /\ \A i \in 1..Len(lb.reqs) : lb.reqs[i].outcome = "ok") =>
        /\ lb.result = "Ok"
        /\ Covers(KindRanges("metrics"), lb.nm)
        /\ Covers(KindRanges("params"), lb.np)
        /\ Covers(KindRanges("tags"), lb.nt)
        /\ (lb.nm + lb.np + lb.nt = 0 => lb.reqs = <<>>)
\* a split input whose last metrics chunk and last tags chunk are partial
C17_Witness ==
    /\ lb.pc = "done" /\ lb.result = "Ok"
    /\ lb.nm = LOG_BATCH_MAX_METRICS + 1
    /\ lb.np = LOG_BATCH_MAX_PARAMS
    /\ lb.nt = LOG_BATCH_MAX_TAGS + 1
    /\ Len(lb.reqs) = 5

\* the lookup by a get request failed with error code RESOURCE_DOES_NOT_EXIST
NotFound(r) == r = ErrResponse(ApiError("RESOURCE_DOES_NOT_EXIST"))

\* C18: experiment, experiment_by_name and run return Ok(None) exactly when
\* the get request fails with error code RESOURCE_DOES_NOT_EXIST, Ok(Some)
\* of the value when it succeeds, and the error itself for any other
\* failure. create_experiment_if_not_exists issues a create request exactly
\* when its lookup by name gave None; when the lookup found the experiment
\* it returns that experiment after the one get request, and a failed lookup
\* is returned as the error, without a create request.
C18_OnlyNotFoundIsAbsence ==
    /\ (lk.pc = "done" /\ lk.fn \in LookupFns) =>
          /\ lk.result.kind = "None" <=> NotFound(lk.first)
          /\ lk.result.kind = "Some" <=> lk.first.ok
          /\ lk.first.ok => lk.result.value = lk.first.value
          /\ lk.result.kind = "Err" <=> (~lk.first.ok /\ ~NotFound(lk.first))
          /\ lk.result.kind = "Err" => lk.result.error = lk.first.error
    /\ lk.fn = "create_experiment_if_not_exists" =>
          /\ (\E i \in 1..Len(lk.reqs) : lk.reqs[i] = "create") => NotFound(lk.first)
          /\ (lk.pc = "done" /\ NotFound(lk.first)) => Len(lk.reqs) >= 2 /\ lk.reqs[2] = "create"
          /\ (lk.pc = "done" /\ lk.first.ok) =>
                /\ lk.reqs = <<"get">>
                /\ lk.result.kind = "Some" /\ lk.result.value = "existing"
          /\ (lk.pc = "done" /\ ~lk.first.ok /\ ~NotFound(lk.first)) =>
                /\ lk.reqs = <<"get">>
                /\ lk.result.kind = "Err" /\ lk.result.error = lk.first.error
\* the lookup by name found nothing, and the experiment was created and read
C18_Witness ==
    /\ lk.pc = "done" /\ lk.fn = "create_experiment_if_not_exists"
    /\ NotFound(lk.first)
    /\ lk.reqs = <<"get", "create", "get">>
    /\ lk.result.kind = "Some" /\ lk.result.value = "created"

\* ---- the worker's lifetime and the pending list (Spec) ----
\* some log_metric / log_metrics call has returned
LogMetricCallReturned ==
    \E j \in 1..Len(returns) : returns[j].call \in {"log_metric", "log_metrics"}
\* some worker thread terminated abnormally
SomePanic == \E w \in Workers : wpc[w] = "panicked"

\* C21 (as stated): whenever a log_metric or log_metrics call has returned
\* and pending_metrics is non-empty, a worker thread is alive.
C21_Original ==
    (fpc = "idle" /\ LogMetricCallReturned /\ metrics # <<>>) => LiveWorkers # {}

\* C22: a worker that is about to exit normally (it holds the Mutex and its
\* next step clears the handle) finds pending_metrics empty, and every
\* metric appended so far has been taken into a batch-log operation; a
\* worker that evaluates the drain condition with metrics pending never
\* finds a stored error.
C22_ExitLeavesNothingPending ==
    \A w \in Workers :
        /\ wpc[w] = "exit" => (lock = w /\ metrics = <<>> /\ Sent = enqueued)
        /\ (wpc[w] = "check" /\ metrics # <<>>) => error = NoError
\* a worker of a Running writer is about to exit after two batch-log
\* operations, the second one with metrics appended while it was alive
C22_Witness ==
    \E w \in Workers :
        /\ wpc[w] = "exit" /\ status = "Running"
        /\ \E i, j \in BatchOps : i < j /\ ops[i].worker = w /\ ops[j].worker = w

\* C23: once a run-update operation has been issued, pending_metrics is
\* empty and every appended metric has been taken into a batch-log
\* operation, a terminal status has been requested and is the status the
\* update carries, and the update is the last network operation issued.
C23_UpdateIsLast ==
    \A u \in UpdateOps :
        /\ metrics = <<>>
        /\ Sent = enqueued
        /\ status # "Running"
        /\ ops[u].status = status
        /\ u = Len(ops)
\* the update is in flight after the same worker drained two batches
C23_Witness ==
    \E w \in Workers :
        /\ wpc[w] = "in_update"
        /\ \E i, j \in BatchOps : i < j /\ ops[i].worker = w /\ ops[j].worker = w
        /\ \E u \in UpdateOps : ops[u].worker = w /\ ops[u].outcome = "inflight"

\* the positions in enqueued of the records pushed by the facade call c
RecordsOf(c) == {k \in 1..Len(enqueued) : enqueued[k].call = c}
\* the positions in enqueued of the records a batch-log operation carries
InBatch(b) == {k \in 1..Len(enqueued) : \E x \in 1..Len(ops[b].metrics) : ops[b].metrics[x] = enqueued[k]}
\* the positions in enqueued of the records in pending_metrics
Pending == {k \in 1..Len(enqueued) : \E x \in 1..Len(metrics) : metrics[x] = enqueued[k]}

\* the list ms starts with the first record of a facade call and ends with
\* the last record of a facade call, and holds the records between them in
\* the order of the appends: it holds all records of a call or none
WholeCalls(ms) ==
    ms # <<>> =>
        LET first == ms[1].id
            last == ms[Len(ms)].id
        IN /\ last = first + Len(ms) - 1
           /\ last <= Len(enqueued)
           /\ \A x \in 1..Len(ms) : ms[x] = enqueued[first + x - 1]
           /\ first > 1 => enqueued[first - 1].call # enqueued[first].call
           /\ last < Len(enqueued) => enqueued[last + 1].call # enqueued[last].call

\* C24: the records of one log_metrics call are appended together: they are
\* consecutive in the order of appends and carry one timestamp, and every
\* batch-log operation carries either all of them or none of them, as does
\* pending_metrics whenever the facade does not hold the Mutex.
C24_AppendIsAtomic ==
    /\ \A k \in 1..(Len(enqueued) - 1) :
          /\ enqueued[k].call <= enqueued[k + 1].call
          /\ enqueued[k].call = enqueued[k + 1].call =>
                enqueued[k].timestamp = enqueued[k + 1].timestamp
    /\ \A b \in BatchOps : WholeCalls(ops[b].metrics)
    /\ lock # Facade => WholeCalls(metrics)
\* the worker has taken the records of a log_metrics call as one batch while
\* an earlier batch of its own was issued before
C24_Witness ==
    \E b \in BatchOps, c \in 1..Len(returns) :
        /\ returns[c].call = "log_metrics"
        /\ Cardinality(RecordsOf(c)) = MaxBatch
        /\ RecordsOf(c) \subseteq InBatch(b)
        /\ \E a \in BatchOps : a < b /\ ops[a].worker = ops[b].worker

\* ---- termination and progress (SpecLive) ----
\* the facade is inside end(), called by finish() or by drop()
InEnd == fpc \in {"end_body", "end_join", "end_relock", "end_take_error"}
\* end() has returned to finish() or to drop()
EndReturned == fpc \in {"finish_returned", "gone"}

\* C25: when every network operation returns and the threads are scheduled
\* fairly, a call of end() by finish() or by drop() returns.
C25_FinalizeTerminates == InEnd ~> EndReturned
\* finish() has returned after joining a worker that drained a batch and
\* issued the update
C25_Witness ==
    /\ fpc = "finish_returned"
    /\ BatchOps # {} /\ UpdateOps # {}
    /\ \A w \in Workers : ~Alive(w)

\* C26: when every network operation returns and the threads are scheduled
\* fairly, again and again every metric appended so far has been included
\* in a batch-log operation: no appended metric stays pending forever, with
\* or without a later call on the writer.
C26_EveryMetricEventuallySent == []<>(Sent = enqueued)
\* all metrics of two calls have been sent, the worker has exited, and
\* finish() has not been called
C26_Witness ==
    /\ Len(enqueued) >= 2 /\ Sent = enqueued
    /\ fpc = "idle" /\ status = "Running" /\ ~is_end
    /\ LiveWorkers = {}

\* ---- errors on the finish path (Spec) ----
\* every log_metric / log_metrics call that returned, and finish(), gave Ok
AllCallsOk ==
    \A j \in 1..Len(returns) :
        returns[j].call \in {"log_metric", "log_metrics", "finish"} => returns[j].result = NoError

\* C27: when finish() has returned Ok and every log_metric / log_metrics
\* call returned Ok, every batch-log operation and every run-update
\* operation issued by the workers has succeeded.
C27_NoSilentFailure ==
    (fpc = "finish_returned" /\ AllCallsOk) =>
        \A i \in BatchOps \cup UpdateOps : ops[i].outcome = "ok"
\* finish() and two log calls returned Ok after two batch-log operations and
\* the update
C27_Witness ==
    /\ fpc = "finish_returned" /\ AllCallsOk
    /\ Len(returns) = 3
    /\ Cardinality(BatchOps) >= 2 /\ UpdateOps # {}

\* ---- the order of the chunks of log_batch (SpecApi) ----
\* the input of the call in progress does not fit into one request
IsSplit == lb.pc # "idle" /\ ~FitsOneRequest(lb.nm, lb.np, lb.nt)
\* the rank of the one kind a chunk request carries (0: not exactly one kind)
KindRank(r) ==
    CASE RangeLen(r.m) > 0 /\ RangeLen(r.p) = 0 /\ RangeLen(r.t) = 0 -> 1
      [] RangeLen(r.m) = 0 /\ RangeLen(r.p) > 0 /\ RangeLen(r.t) = 0 -> 2
      [] RangeLen(r.m) = 0 /\ RangeLen(r.p) = 0 /\ RangeLen(r.t) > 0 -> 3
      [] OTHER -> 0

\* C28: when log_batch splits its input, every request carries entries of
\* one kind, the metric chunks come before the param chunks and these before
\* the tag chunks, a request that failed is the last request sent (the
\* earlier ones were sent and succeeded), and log_batch has then returned
\* that error; it returns Ok only after every chunk was sent.
C28_SplitOrderAndFirstError ==
    IsSplit =>
        /\ \A i \in 1..Len(lb.reqs) : KindRank(lb.reqs[i]) # 0
        /\ \A i, j \in 1..Len(lb.reqs) : i < j => KindRank(lb.reqs[i]) <= KindRank(lb.reqs[j])
        /\ \A i \in 1..Len(lb.reqs) :
              lb.reqs[i].outcome = "err" => (i = Len(lb.reqs) /\ lb.pc = "done" /\ lb.result = "Err")
        /\ lb.result = "Err" => (lb.reqs # <<>> /\ lb.reqs[Len(lb.reqs)].outcome = "err")
        /\ lb.result = "Ok" =>
              /\ Covers(KindRanges("metrics"), lb.nm)
              /\ Covers(KindRanges("params"), lb.np)
              /\ Covers(KindRanges("tags"), lb.nt)
\* log_batch returned the error of its second param chunk, after two metric
\* chunks and one param chunk were sent, with tags left unsent
C28_Witness ==
    /\ IsSplit /\ lb.pc = "done" /\ lb.result = "Err"
    /\ Len(lb.reqs) = 4
    /\ KindRank(lb.reqs[2]) = 1 /\ KindRank(lb.reqs[3]) = 2 /\ KindRank(lb.reqs[4]) = 2
    /\ lb.reqs[4].outcome = "err"
    /\ lb.nt > 0

\* ---- a log call after an abnormal termination (Spec) ----
\* the facade is in the lock hold of log_metric / log_metrics, about to run
\* its body, and d.task holds the handle of a worker that panicked
LogBodyAfterPanic ==
    /\ fpc \in {"log_metric", "log_metrics"}
    /\ task # NoTask /\ wpc[task] = "panicked"
\* the records appended by the step
NewRecords == SubSeq(enqueued', Len(enqueued) + 1, Len(enqueued'))

\* C29: a log_metric / log_metrics call whose body runs while d.task holds
\* the handle of a panicked worker returns TaskJoinError, clears the handle,
\* spawns no worker and leaves the records it appended in pending_metrics
\* behind the ones already pending; no worker is alive when it returns, so
\* these records can be sent only by a worker that a later call spawns.
C29_LogCallAfterPanic ==
    [][(LogBodyAfterPanic /\ fpc' = "idle") =>
          /\ Len(returns') = Len(returns) + 1
          /\ returns'[Len(returns')].result = TaskJoinError
          /\ task' = NoTask
          /\ wpc' = wpc
          /\ metrics' = metrics \o NewRecords
          /\ error' = error
          /\ \A w \in Workers : wpc'[w] \in {"none", "done", "panicked"}]_vars
\* the second log call returned TaskJoinError, and its record was sent by
\* the worker that finish() spawned afterwards
C29_Witness ==
    /\ Len(returns) >= 2
    /\ returns[2].call = "log_metric" /\ returns[2].result = TaskJoinError
    /\ wpc[1] = "panicked"
    /\ \E b \in BatchOps : ops[b].worker = 2 /\ RecordsOf(2) # {} /\ RecordsOf(2) \subseteq InBatch(b)

\* ---- log_param / log_params of the writer (Spec) ----
\* the step is the call of log_param (its request is issued)
LogParamCalled == fpc = "idle" /\ fpc' = "in_log_param"
\* the step is the return of log_param
LogParamReturned == fpc = "in_log_param" /\ fpc' = "idle"
\* the request of the log_param call in progress
OwnParamOp == CHOOSE j \in 1..Len(ops) : ops[j].worker = Facade /\ ops[j].outcome = "inflight"

====
